---- MODULE Spec2Model ----
(***************************************************************************)
(* Model of src/sistema.py: the water-consumption domain classes (Usuario, *)
(* UsuarioComercial, Consumo, AlertaSimples, AlertaCritico,                *)
(* GerenciadorConsumo) and the menu loop SistemaMenu.executar.             *)
(*                                                                         *)
(* Abstractions.  A Python float is modelled as an exact rational          *)
(* (num/den in lowest terms) or NaN; the litre amounts that are typed in   *)
(* are whole numbers, for which float addition is exact.  float("inf") is  *)
(* not among the typed lines: in every comparison of this program it acts  *)
(* as a very large amount.  Consumo.data (the wall-clock timestamp) and    *)
(* the text written by print are not modelled: no method reads them back.  *)
(***************************************************************************)
EXTENDS Integers, Sequences, FiniteSets, TLC

(***************************************************************************)
(* Bounds of the model.                                                    *)
(***************************************************************************)
\* The state-changing commands (registrations and stored records) of a session.
MaxComandos == 4

(***************************************************************************)
(* Python values.  None and a raised ValueError are the empty tuple, a     *)
(* returned value v is the 1-tuple <<v>>.                                  *)
(***************************************************************************)
None == << >>
Some(v) == << v >>

RECURSIVE GCD(_, _)
GCD(a, b) == IF b = 0 THEN a ELSE GCD(b, a % b)

Abs(n) == IF n < 0 THEN -n ELSE n

\* The rational num/den (den > 0) in lowest terms.
Frac(num, den) ==
    LET g == GCD(Abs(num), den)
    IN  [nan |-> FALSE, num |-> num \div g, den |-> den \div g]

Num(n) == [nan |-> FALSE, num |-> n, den |-> 1]
NaN == [nan |-> TRUE, num |-> 0, den |-> 1]

\* float arithmetic and comparison: NaN propagates through + * /, and every
\* ordered comparison with NaN is False.
FAdd(a, b) ==
    IF a.nan \/ b.nan THEN NaN
    ELSE Frac(a.num * b.den + b.num * a.den, a.den * b.den)
FMul(a, b) ==
    IF a.nan \/ b.nan THEN NaN ELSE Frac(a.num * b.num, a.den * b.den)
FDivInt(a, n) == IF a.nan THEN NaN ELSE Frac(a.num, a.den * n)
FGt(a, b) == ~a.nan /\ ~b.nan /\ a.num * b.den > b.num * a.den
FLt(a, b) == ~a.nan /\ ~b.nan /\ a.num * b.den < b.num * a.den

(***************************************************************************)
(* Lines typed at the console.                                             *)
(***************************************************************************)
NomesUsuario == {"", "ana"}
NomesEmpresa == {"Ana"}
Cnpjs == {"", "12.345"}
LinhasMenu == {"0", "1", "2", "3", "4", "5", "6", "7", "8", "9", "abc"}
LinhasIndice == {"abc"} \cup {ToString(n) : n \in 0..(MaxComandos + 1)}
LinhasValor == {"abc", "nan", "-50", "200", "300"}

\* The integers whose decimal numerals are among the typed lines.
Inteiros == (-50..10) \cup {200, 300}
Numerais == {ToString(n) : n \in Inteiros}
ValorDe == [s \in Numerais |-> CHOOSE n \in Inteiros : ToString(n) = s]

\* int(line): the integer a numeral denotes, ValueError for any other text.
int(linha) == IF linha \in Numerais THEN Some(ValorDe[linha]) ELSE None

\* float(line): as int, and the text "nan" is accepted as NaN.
float(linha) ==
    IF linha = "nan" THEN Some(NaN)
    ELSE IF int(linha) # None THEN Some(Num(int(linha)[1]))
    ELSE None

\* str.lower on the names of the model.
lower(s) == CASE s = "Ana" -> "ana" [] s = "ANA" -> "ana" [] OTHER -> s

(***************************************************************************)
(* Usuario, UsuarioComercial, Consumo.                                     *)
(***************************************************************************)
Consumo(valor) == [valor |-> valor]

\* cnpj is None for a Usuario, which has no such attribute.
Usuario(nome) ==
    [nome |-> nome, tipo |-> "Residencial", cnpj |-> None, consumos |-> << >>]

UsuarioComercial(nome, cnpj) ==
    [nome |-> nome, tipo |-> "Comercial", cnpj |-> Some(cnpj), consumos |-> << >>]

\* adicionar_consumo with insert(0, consumo) in place of append.
adicionar_consumo_no_inicio(usuario, consumo) ==
    [usuario EXCEPT !.consumos = <<consumo>> \o @]

adicionar_consumo(usuario, consumo) ==
    [usuario EXCEPT !.consumos = Append(@, consumo)]

\* sum(...): left to right, starting from the int 0.
RECURSIVE sum(_)
sum(valores) ==
    IF valores = << >> THEN Num(0)
    ELSE FAdd(sum(SubSeq(valores, 1, Len(valores) - 1)), valores[Len(valores)])

\* max(...): the first item, replaced by each later item that is > it.
RECURSIVE max(_)
max(valores) ==
    IF Len(valores) = 1 THEN valores[1]
    ELSE LET m == max(SubSeq(valores, 1, Len(valores) - 1))
             x == valores[Len(valores)]
         IN  IF FGt(x, m) THEN x ELSE m

\* min(...): the first item, replaced by each later item that is < it.
RECURSIVE min(_)
min(valores) ==
    IF Len(valores) = 1 THEN valores[1]
    ELSE LET m == min(SubSeq(valores, 1, Len(valores) - 1))
             x == valores[Len(valores)]
         IN  IF FLt(x, m) THEN x ELSE m

Valores(usuario) == [i \in 1..Len(usuario.consumos) |-> usuario.consumos[i].valor]

calcular_total(usuario) == sum(Valores(usuario))

obter_estatisticas(usuario) ==
    IF Len(usuario.consumos) = 0
    THEN [total |-> Num(0), media |-> Num(0), quantidade_registros |-> 0,
          maior_consumo |-> Num(0), menor_consumo |-> Num(0)]
    ELSE LET valores == Valores(usuario)
         IN  [total |-> sum(valores),
              media |-> FDivInt(sum(valores), Len(valores)),
              quantidade_registros |-> Len(valores),
              maior_consumo |-> max(valores),
              menor_consumo |-> min(valores)]

(***************************************************************************)
(* Alerta.                                                                 *)
(***************************************************************************)
Limite == 200
UmVirgulaCinco == Frac(3, 2)

AlertaSimples(limite) == [classe |-> "AlertaSimples", limite |-> limite]
AlertaCritico(limite) == [classe |-> "AlertaCritico", limite |-> limite]

AlertaSimples_verificar(alerta, consumo) ==
    IF FGt(consumo, Num(alerta.limite))
    THEN Some([texto |-> "CONSUMO ALTO", consumo |-> consumo,
               limite |-> alerta.limite])
    ELSE None

AlertaCritico_verificar(alerta, consumo) ==
    IF FGt(consumo, FMul(Num(alerta.limite), UmVirgulaCinco))
    THEN Some([texto |-> "CONSUMO CRITICO", consumo |-> consumo,
               limite |-> alerta.limite])
    ELSE None

\* alerta.verificar(consumo), dispatched on the class of the alert.
verificar(alerta, consumo) ==
    IF alerta.classe = "AlertaSimples"
    THEN AlertaSimples_verificar(alerta, consumo)
    ELSE AlertaCritico_verificar(alerta, consumo)

(***************************************************************************)
(* State.  usuarios and alertas are the two private lists of the           *)
(* GerenciadorConsumo owned by SistemaMenu; opcao is the loop variable of  *)
(* SistemaMenu.executar.                                                   *)
(***************************************************************************)
VARIABLES usuarios, alertas, opcao

vars == <<usuarios, alertas, opcao>>

(***************************************************************************)
(* GerenciadorConsumo.                                                     *)
(***************************************************************************)
adicionar_usuario(usuario) == Append(usuarios, usuario)

\* buscar_desde comparing usuario.nome == nome.lower(), the stored name as is.
RECURSIVE buscar_desde_sem_lower(_, _)
buscar_desde_sem_lower(i, nome) ==
    IF i > Len(usuarios) THEN None
    ELSE IF usuarios[i].nome = lower(nome) THEN Some(i)
    ELSE buscar_desde_sem_lower(i + 1, nome)

\* The for loop of buscar_usuario from position i on: the position of the
\* user returned, None when the loop falls through.
RECURSIVE buscar_desde(_, _)
buscar_desde(i, nome) ==
    IF i > Len(usuarios) THEN None
    ELSE IF lower(usuarios[i].nome) = lower(nome) THEN Some(i)
    ELSE buscar_desde(i + 1, nome)

buscar_usuario(nome) == buscar_desde(1, nome)

listar_usuarios == usuarios

\* The for loop of verificar_alertas over the alerts from position i on.
RECURSIVE alertas_desde(_, _)
alertas_desde(i, total) ==
    IF i > Len(alertas) THEN << >>
    ELSE LET msg == verificar(alertas[i], total)
         IN  (IF msg # None THEN <<msg[1]>> ELSE << >>)
                 \o alertas_desde(i + 1, total)

verificar_alertas(usuario) == alertas_desde(1, calcular_total(usuario))

\* sum(u.calcular_total() for u in usuarios[1..n]).
RECURSIVE consumo_total(_)
consumo_total(n) ==
    IF n = 0 THEN Num(0)
    ELSE FAdd(consumo_total(n - 1), calcular_total(usuarios[n]))

\* gerar_relatorio_geral counting only the users with more than one alert.
gerar_relatorio_so_criticos ==
    IF Len(usuarios) = 0
    THEN [total_usuarios |-> 0,
          consumo_total_sistema |-> Num(0),
          media_por_usuario |-> Num(0)]
    ELSE [total_usuarios |-> Len(usuarios),
          consumo_total_sistema |-> consumo_total(Len(usuarios)),
          media_por_usuario |->
              FDivInt(consumo_total(Len(usuarios)), Len(usuarios)),
          usuarios_com_alerta |->
              Cardinality({i \in 1..Len(usuarios) :
                              Len(verificar_alertas(usuarios[i])) > 1})]

\* gerar_relatorio_geral whose report for no users lacks media_por_usuario.
gerar_relatorio_vazio_sem_media ==
    IF Len(usuarios) = 0
    THEN [total_usuarios |-> 0,
          consumo_total_sistema |-> Num(0)]
    ELSE [total_usuarios |-> Len(usuarios),
          consumo_total_sistema |-> consumo_total(Len(usuarios)),
          media_por_usuario |->
              FDivInt(consumo_total(Len(usuarios)), Len(usuarios)),
          usuarios_com_alerta |->
              Cardinality({i \in 1..Len(usuarios) :
                              Len(verificar_alertas(usuarios[i])) > 0})]

gerar_relatorio_geral ==
    IF Len(usuarios) = 0
    THEN [total_usuarios |-> 0,
          consumo_total_sistema |-> Num(0),
          media_por_usuario |-> Num(0)]
    ELSE [total_usuarios |-> Len(usuarios),
          consumo_total_sistema |-> consumo_total(Len(usuarios)),
          media_por_usuario |->
              FDivInt(consumo_total(Len(usuarios)), Len(usuarios)),
          usuarios_com_alerta |->
              Cardinality({i \in 1..Len(usuarios) :
                              Len(verificar_alertas(usuarios[i])) > 0})]

(***************************************************************************)
(* SistemaMenu.  Each action is one turn of the while loop of executar:    *)
(* the menu line is read and converted, and the chosen method runs to its  *)
(* end.                                                                    *)
(***************************************************************************)
RECURSIVE TotalRegistros(_)
TotalRegistros(us) ==
    IF us = << >> THEN 0
    ELSE Len(us[1].consumos) + TotalRegistros(Tail(us))

\* The number of state-changing commands that led to the user list us.
Comandos(us) == Len(us) + TotalRegistros(us)

Init ==
    /\ usuarios = << >>
    /\ alertas = <<AlertaSimples(Limite), AlertaCritico(Limite)>>
    /\ opcao = 0

\* The menu line typed is a numeral of n.
Escolhe(n) == \E linha \in LinhasMenu : int(linha) = Some(n)

cadastrar_usuario_residencial ==
    /\ opcao # 9
    /\ Escolhe(1)
    /\ Comandos(usuarios) < MaxComandos
    /\ \E nome \in NomesUsuario :
          usuarios' = adicionar_usuario(Usuario(nome))
    /\ opcao' = 1
    /\ UNCHANGED alertas

cadastrar_usuario_comercial ==
    /\ opcao # 9
    /\ Escolhe(2)
    /\ Comandos(usuarios) < MaxComandos
    /\ \E nome \in NomesEmpresa, cnpj \in Cnpjs :
          usuarios' = adicionar_usuario(UsuarioComercial(nome, cnpj))
    /\ opcao' = 2
    /\ UNCHANGED alertas

\* registrar_consumo on the typed lines li (user number) and lv (litres):
\* the user list it leaves and the message it ends with.  lv is read only
\* once li has been accepted.
registrar_resultado(li, lv) ==
    IF Len(listar_usuarios) = 0
    THEN [usuarios |-> usuarios, mensagem |-> "Nenhum usuario cadastrado."]
    ELSE IF int(li) = None
    THEN [usuarios |-> usuarios, mensagem |-> "Erro: valor numerico"]
    ELSE LET indice == int(li)[1] - 1
         IN  IF indice < 0 \/ indice >= Len(usuarios)
             THEN [usuarios |-> usuarios, mensagem |-> "Usuario invalido."]
             ELSE IF float(lv) = None
             THEN [usuarios |-> usuarios, mensagem |-> "Erro: valor numerico"]
             ELSE LET valor == float(lv)[1]
                  IN  IF FLt(valor, Num(0))
                      THEN [usuarios |-> usuarios,
                            mensagem |-> "O consumo nao pode ser negativo."]
                      ELSE [usuarios |->
                                [usuarios EXCEPT ![indice + 1] =
                                    adicionar_consumo(@, Consumo(valor))],
                            mensagem |-> "Consumo registrado"]

registrar_consumo ==
    /\ opcao # 9
    /\ Escolhe(3)
    /\ \E us \in {registrar_resultado(li, lv).usuarios :
                     li \in LinhasIndice, lv \in LinhasValor} :
          /\ Comandos(us) <= MaxComandos
          /\ usuarios' = us
    /\ opcao' = 3
    /\ UNCHANGED alertas

\* ver_consumo emptying each list of consumos as it prints it.
ver_consumo_esvazia ==
    /\ opcao # 9
    /\ Escolhe(4)
    /\ opcao' = 4
    /\ usuarios' = [i \in 1..Len(usuarios) |->
                       [usuarios[i] EXCEPT !.consumos = << >>]]
    /\ UNCHANGED alertas

\* Prints exibir_info and the consumos of every user of listar_usuarios.
ver_consumo ==
    /\ opcao # 9
    /\ Escolhe(4)
    /\ opcao' = 4
    /\ UNCHANGED <<usuarios, alertas>>

\* Prints calcular_total of every user.
calcular_consumo_total ==
    /\ opcao # 9
    /\ Escolhe(5)
    /\ opcao' = 5
    /\ UNCHANGED <<usuarios, alertas>>

\* Prints verificar_alertas of every user.
ver_alerta_consumo ==
    /\ opcao # 9
    /\ Escolhe(6)
    /\ opcao' = 6
    /\ UNCHANGED <<usuarios, alertas>>

\* Prints obter_estatisticas of every user.
ver_estatisticas_detalhadas ==
    /\ opcao # 9
    /\ Escolhe(7)
    /\ opcao' = 7
    /\ UNCHANGED <<usuarios, alertas>>

\* Prints gerar_relatorio_geral; the last two fields only when total_usuarios > 0.
ver_relatorio_geral ==
    /\ opcao # 9
    /\ Escolhe(8)
    /\ opcao' = 8
    /\ UNCHANGED <<usuarios, alertas>>

\* Option 9: the loop condition opcao != 9 then ends the session.
sair ==
    /\ opcao # 9
    /\ Escolhe(9)
    /\ opcao' = 9
    /\ UNCHANGED <<usuarios, alertas>>

\* A number that is no option of the menu.
opcao_invalida ==
    /\ opcao # 9
    /\ \E linha \in LinhasMenu :
          /\ int(linha) # None
          /\ int(linha)[1] \notin 1..9
          /\ opcao' = int(linha)[1]
    /\ UNCHANGED <<usuarios, alertas>>

\* int() raises ValueError on the menu line: opcao keeps its value.
erro_de_entrada ==
    /\ opcao # 9
    /\ \E linha \in LinhasMenu : int(linha) = None
    /\ UNCHANGED <<usuarios, alertas, opcao>>

Next ==
    \/ cadastrar_usuario_residencial
    \/ cadastrar_usuario_comercial
    \/ registrar_consumo
    \/ ver_consumo
    \/ calcular_consumo_total
    \/ ver_alerta_consumo
    \/ ver_estatisticas_detalhadas
    \/ ver_relatorio_geral
    \/ sair
    \/ opcao_invalida
    \/ erro_de_entrada

Spec == Init /\ [][Next]_vars

(***************************************************************************)
(* Vocabulary of the properties, defined apart from the methods above.     *)
(***************************************************************************)
\* a <= b and a >= b on numbers; false when either side is NaN.
Le(a, b) == ~a.nan /\ ~b.nan /\ a.num * b.den <= b.num * a.den
Ge(a, b) == Le(b, a)

\* a1 + ... + an, folded from the right.
RECURSIVE Soma(_)
Soma(as) == IF as = << >> THEN Num(0) ELSE FAdd(Head(as), Soma(Tail(as)))

\* The amounts [a1..an] of a user and their sum T.
Quantias(u) == [i \in 1..Len(u.consumos) |-> u.consumos[i].valor]
Total(u) == Soma(Quantias(u))

\* q is t / n: NaN with t, otherwise the number whose n-fold is t.
Quociente(q, t, n) ==
    IF t.nan THEN q.nan ELSE ~q.nan /\ FMul(q, Num(n)) = t

\* m is the largest (smallest) of the amounts as: one of them, and no number
\* among them is above (below) it.  An amount that is NaN has no order and
\* is passed over, but the largest of amounts that hold a number is a number.
Maior(m, as) ==
    /\ \E i \in 1..Len(as) : as[i] = m
    /\ \A i \in 1..Len(as) : as[i] = m \/ as[i].nan \/ Le(as[i], m)
Menor(m, as) ==
    /\ \E i \in 1..Len(as) : as[i] = m
    /\ \A i \in 1..Len(as) : as[i] = m \/ as[i].nan \/ Ge(as[i], m)

Textos(msgs) == [i \in 1..Len(msgs) |-> msgs[i].texto]

Usuarios == {usuarios[i] : i \in 1..Len(usuarios)}

\* s is a prefix of t.
Prefixo(s, t) == Len(s) <= Len(t) /\ SubSeq(t, 1, Len(s)) = s

\* Two names are equal ignoring letter case.
IgualSemCaixa(a, b) == a = b \/ {a, b} \subseteq {"ana", "Ana", "ANA"}

NomesBusca == {"", "ana", "Ana", "ANA", "bob"}

\* C1: for every registered user with total T, verificar_alertas returns no
\* message exactly when T <= 200, exactly the CONSUMO ALTO message when
\* 200 < T <= 300, and CONSUMO ALTO followed by CONSUMO CRITICO when T > 300.
C1_AlertasPorFaixa ==
    \A u \in Usuarios :
        LET T == Total(u)
            msgs == Textos(verificar_alertas(u))
        IN  /\ (msgs = << >>) <=> Le(T, Num(200))
            /\ (msgs = <<"CONSUMO ALTO">>)
                   <=> (FGt(T, Num(200)) /\ Le(T, Num(300)))
            /\ (msgs = <<"CONSUMO ALTO", "CONSUMO CRITICO">>)
                   <=> FGt(T, Num(300))

\* The statement of C1 for the users none of whose amounts is NaN.
AlertasPorFaixaSemNaN ==
    \A u \in Usuarios :
        (\A i \in 1..Len(u.consumos) : ~u.consumos[i].valor.nan) =>
            LET T == Total(u)
                msgs == Textos(verificar_alertas(u))
            IN  /\ (msgs = << >>) <=> Le(T, Num(200))
                /\ (msgs = <<"CONSUMO ALTO">>)
                       <=> (FGt(T, Num(200)) /\ Le(T, Num(300)))
                /\ (msgs = <<"CONSUMO ALTO", "CONSUMO CRITICO">>)
                       <=> FGt(T, Num(300))

\* C2: with at least one user, gerar_relatorio_geral returns the number of
\* users, the sum of the users' totals, that sum divided by the number of
\* users, and the number of users for whom verificar_alertas returns a
\* message, which are the users whose total exceeds 200.
C2_RelatorioGeral ==
    Len(usuarios) >= 1 =>
        LET r == gerar_relatorio_geral
            S == Soma([i \in 1..Len(usuarios) |-> Total(usuarios[i])])
        IN  /\ DOMAIN r = {"total_usuarios", "consumo_total_sistema",
                           "media_por_usuario", "usuarios_com_alerta"}
            /\ r.total_usuarios = Len(usuarios)
            /\ r.consumo_total_sistema = S
            /\ Quociente(r.media_por_usuario, S, Len(usuarios))
            /\ r.usuarios_com_alerta =
                   Cardinality({i \in 1..Len(usuarios) :
                                   verificar_alertas(usuarios[i]) # << >>})
            /\ r.usuarios_com_alerta =
                   Cardinality({i \in 1..Len(usuarios) :
                                   FGt(Total(usuarios[i]), Num(200))})

\* Two users, one with an alert and one without, and the report was shown.
C2_Witness ==
    /\ Len(usuarios) = 2
    /\ opcao = 8
    /\ gerar_relatorio_geral.usuarios_com_alerta = 1
    /\ gerar_relatorio_geral.media_por_usuario = Num(250)

\* C3 as claimed: with no user, the report carries all four fields, each 0.
C3_QuatroCamposZero ==
    Len(usuarios) = 0 =>
        LET r == gerar_relatorio_geral
        IN  /\ DOMAIN r = {"total_usuarios", "consumo_total_sistema",
                           "media_por_usuario", "usuarios_com_alerta"}
            /\ r.total_usuarios = 0
            /\ r.consumo_total_sistema = Num(0)
            /\ r.media_por_usuario = Num(0)
            /\ r.usuarios_com_alerta = 0

\* C3 as amended: with no user, the report carries exactly the three fields
\* total_usuarios, consumo_total_sistema and media_por_usuario, each 0, and
\* no field usuarios_com_alerta.
C3_TresCamposZero ==
    Len(usuarios) = 0 =>
        LET r == gerar_relatorio_geral
        IN  /\ DOMAIN r = {"total_usuarios", "consumo_total_sistema",
                           "media_por_usuario"}
            /\ r.total_usuarios = 0
            /\ r.consumo_total_sistema = Num(0)
            /\ r.media_por_usuario = Num(0)

\* The report was shown while no user was registered.
C3_Witness == Len(usuarios) = 0 /\ opcao = 8

\* C4: a user without records has calcular_total 0 and all five statistics
\* 0; a user with amounts [a1..an], n >= 1, has total a1+...+an (which is
\* calcular_total), count n, mean total / n, max the largest ai and min the
\* smallest ai.
C4_Estatisticas ==
    \A u \in Usuarios :
        LET st == obter_estatisticas(u)
            as == Quantias(u)
            n == Len(as)
        IN  IF n = 0
            THEN /\ calcular_total(u) = Num(0)
                 /\ st = [total |-> Num(0), media |-> Num(0),
                          quantidade_registros |-> 0,
                          maior_consumo |-> Num(0), menor_consumo |-> Num(0)]
            ELSE /\ st.total = Soma(as)
                 /\ st.total = calcular_total(u)
                 /\ st.quantidade_registros = n
                 /\ Quociente(st.media, st.total, n)
                 /\ Maior(st.maior_consumo, as)
                 /\ Menor(st.menor_consumo, as)

\* The statement of C4 for the users none of whose amounts is NaN.
EstatisticasSemNaN ==
    \A u \in Usuarios :
        (\A i \in 1..Len(u.consumos) : ~u.consumos[i].valor.nan) =>
            LET st == obter_estatisticas(u)
                as == Quantias(u)
                n == Len(as)
            IN  IF n = 0
                THEN /\ calcular_total(u) = Num(0)
                     /\ st = [total |-> Num(0), media |-> Num(0),
                              quantidade_registros |-> 0,
                              maior_consumo |-> Num(0),
                              menor_consumo |-> Num(0)]
                ELSE /\ st.total = Soma(as)
                     /\ st.total = calcular_total(u)
                     /\ st.quantidade_registros = n
                     /\ Quociente(st.media, st.total, n)
                     /\ Maior(st.maior_consumo, as)
                     /\ Menor(st.menor_consumo, as)

\* C5: buscar_usuario returns the user at the smallest position whose name
\* equals the given one ignoring case, and None exactly when no name matches;
\* a later duplicate is never returned.
C5_BuscaPrimeiro ==
    \A nome \in NomesBusca :
        LET M == {i \in 1..Len(usuarios) : IgualSemCaixa(usuarios[i].nome, nome)}
            r == buscar_usuario(nome)
        IN  /\ (r = None) <=> (M = {})
            /\ M # {} => /\ r[1] \in M
                         /\ \A i \in M : r[1] <= i

\* A name that differs in case from the one looked up is registered twice,
\* after a user of another name.
C5_Witness ==
    /\ Len(usuarios) = 3
    /\ usuarios[1].nome = ""
    /\ usuarios[2].nome = "Ana"
    /\ usuarios[3].nome = "ana"
    /\ buscar_usuario("ANA") = Some(2)
    /\ buscar_usuario("bob") = None

\* C6: the state only grows by appending: across every step the user list
\* is a prefix of the new user list, and each user's records are a prefix of
\* that user's new records, name, type and cnpj unchanged.
C6_SoAcrescenta ==
    [][/\ Len(usuarios) <= Len(usuarios')
       /\ \A i \in 1..Len(usuarios) :
             /\ usuarios'[i].nome = usuarios[i].nome
             /\ usuarios'[i].tipo = usuarios[i].tipo
             /\ usuarios'[i].cnpj = usuarios[i].cnpj
             /\ Prefixo(usuarios[i].consumos, usuarios'[i].consumos)]_vars

\* Two users, the first with two records of different amounts.
C6_Witness ==
    /\ Len(usuarios) = 2
    /\ Len(usuarios[1].consumos) = 2
    /\ usuarios[1].consumos[1] # usuarios[1].consumos[2]
    /\ opcao = 3

\* The line denotes a number of 1..userCount / a number that is >= 0.
SelecaoValida(li) == int(li) # None /\ int(li)[1] \in 1..Len(usuarios)
QuantiaValida(lv) == float(lv) # None /\ Ge(float(lv)[1], Num(0))

\* C7: registrar_consumo appends one record with the typed amount to the
\* user at the typed position when the position is a number of 1..userCount
\* and the amount a number >= 0; on any other lines it leaves the user list
\* and every record list as they were; no stored amount is negative.
C7_RegistroValidado ==
    /\ \A li \in LinhasIndice, lv \in LinhasValor :
          registrar_resultado(li, lv).usuarios =
              IF SelecaoValida(li) /\ QuantiaValida(lv)
              THEN [usuarios EXCEPT ![int(li)[1]].consumos =
                       Append(@, [valor |-> float(lv)[1]])]
              ELSE usuarios
    /\ \A u \in Usuarios :
          \A i \in 1..Len(u.consumos) : ~FLt(u.consumos[i].valor, Num(0))

\* The statement of C7 with "a number >= 0" read as "not below 0".
RegistroNaoNegativo ==
    /\ \A li \in LinhasIndice, lv \in LinhasValor :
          registrar_resultado(li, lv).usuarios =
              IF /\ SelecaoValida(li)
                 /\ float(lv) # None
                 /\ ~FLt(float(lv)[1], Num(0))
              THEN [usuarios EXCEPT ![int(li)[1]].consumos =
                       Append(@, [valor |-> float(lv)[1]])]
              ELSE usuarios
    /\ \A u \in Usuarios :
          \A i \in 1..Len(u.consumos) : ~FLt(u.consumos[i].valor, Num(0))

\* C8: every registered user has a non-empty name, and every Comercial user
\* a non-empty cnpj; a user with a cnpj is Comercial.
C8_NomesNaoVazios ==
    \A u \in Usuarios :
        /\ u.nome # ""
        /\ u.tipo = "Comercial" => (u.cnpj # None /\ u.cnpj[1] # "")
        /\ u.cnpj # None => u.tipo = "Comercial"

\* C9: a turn of the loop on options 4 to 8, on a number that is no option
\* or on a line that is no number leaves the user list and every record list
\* unchanged; no turn changes the two thresholds; a turn that changes the
\* user list is a registration or a record append, on option 1, 2 or 3.
C9_SoTresComandosMudam ==
    [][/\ alertas' = alertas
       /\ (\/ ver_consumo
           \/ calcular_consumo_total
           \/ ver_alerta_consumo
           \/ ver_estatisticas_detalhadas
           \/ ver_relatorio_geral
           \/ opcao_invalida
           \/ erro_de_entrada) => usuarios' = usuarios
       /\ opcao' \notin {1, 2, 3} => usuarios' = usuarios
       /\ usuarios' # usuarios =>
             \/ opcao' \in {1, 2} /\ Len(usuarios') = Len(usuarios) + 1
             \/ opcao' = 3 /\ TotalRegistros(usuarios') =
                                  TotalRegistros(usuarios) + 1]_vars

\* A display command has run on a user with records.
C9_Witness ==
    /\ opcao \in 4..8
    /\ Len(usuarios) >= 1
    /\ Len(usuarios[1].consumos) >= 2

TemAlerta(u, texto) ==
    \E i \in 1..Len(verificar_alertas(u)) : verificar_alertas(u)[i].texto = texto

\* C10: across every step a user who had the CONSUMO ALTO (CONSUMO CRITICO)
\* message still has it; CONSUMO CRITICO comes only with CONSUMO ALTO; and
\* usuarios_com_alerta of the report does not decrease.
C10_AlertasMonotonos ==
    [][/\ \A i \in 1..Len(usuarios) :
             /\ i <= Len(usuarios')
             /\ TemAlerta(usuarios[i], "CONSUMO ALTO")
                    => TemAlerta(usuarios'[i], "CONSUMO ALTO")
             /\ TemAlerta(usuarios[i], "CONSUMO CRITICO")
                    => TemAlerta(usuarios'[i], "CONSUMO CRITICO")
       /\ \A u \in Usuarios :
             TemAlerta(u, "CONSUMO CRITICO") => TemAlerta(u, "CONSUMO ALTO")
       /\ Len(usuarios) >= 1 =>
             gerar_relatorio_geral'.usuarios_com_alerta
                 >= gerar_relatorio_geral.usuarios_com_alerta]_vars

====
